---------------------------- MODULE Spec2Model ----------------------------
(***************************************************************************)
(* State-machine model of tuning.py: the search driver (__main__), the     *)
(* trial supervisor (objective) and the actor-learner workers (train).     *)
(*                                                                         *)
(* One run of the driver is followed through one trial.  Every process is  *)
(* a program counter plus its local variables; the shared counters, their  *)
(* locks and the stop event are shared variables.  Time, the environment,  *)
(* the pruner and exceptions are nondeterministic choices.                 *)
(***************************************************************************)
EXTENDS Integers, Sequences, FiniteSets, TLC

(* ------------------------------ bounds -------------------------------- *)
\* params["num_agents"] is drawn from 1..MaxAgents
MaxAgents == 2
\* params["unroll_steps"], scaled down
UnrollSteps == 2
\* the rollout steps of one trial of several workers: global_steps is not
\* incremented beyond it
MaxSteps == 2
\* the same for a trial of one worker, which enters a second cycle
MaxStepsAlone == 3
\* info["number_of_lines"] is drawn from 0..MaxLines
MaxLines == 1

\* the reward env.step returns, before the bonus
RawRewards == {0, 1}

Ranks == 0 .. (MaxAgents - 1)
NoHolder == -1
None == -1

\* the suggestions of a trial: the discount factor in hundredths within
\* [0.9, 0.999] and the weight of the control loss in hundredths within
\* [0.01, 0.1]
ParamSets == {[gamma |-> 90, task_weight |-> 1],
              [gamma |-> 99, task_weight |-> 10]}
NoParams == [gamma |-> None, task_weight |-> None]

\* a trial of one worker is followed under each of them, a trial of several
\* workers under the first
Suggestions(n) ==
    IF n = 1 THEN ParamSets ELSE {[gamma |-> 90, task_weight |-> 1]}

\* the discount factor of an UNREAL built without the gamma argument
DefaultGamma == 99

\* a model: the discount factor it was built with and the version of its
\* weights, the number of optimizer steps that made them; None for the
\* weights a constructor draws
NoModel == [gamma |-> None, weights |-> None]

\* the gradient slots of the shared model hold nothing, zeros, or the
\* gradient a rank computed
Zeroed == -2

\* the component losses of an update
LossCases == {[policy |-> 1,  value |-> 2, vr |-> 4, control |-> 3, rp |-> 5],
              [policy |-> -2, value |-> 1, vr |-> 0, control |-> 7, rp |-> 3]}
NoLosses == [policy |-> None, value |-> None, vr |-> None, control |-> None,
             rp |-> None]

VARIABLES
    \* __main__
    dpc,            \* position of the driver
    study,          \* TRUE once the name `study` is bound
    sampler_file,   \* tuning/sampler.pkl: "old" (as the run found it, a dump of
                    \* an earlier run or no file), "empty" or "sampler"
    dumps,          \* completed pickle.dump calls
    \* objective
    spc,            \* position of the supervisor
    num_agents,     \* params["num_agents"]
    processes,      \* number of processes started and appended
    join_idx,       \* index of the process the join loop is at
    sup_rewards,    \* global_rewards.value as read at line 259
    sup_steps,      \* global_steps.value as read at line 259
    result,         \* what objective returned or raised
    params,         \* the params of the trial: gamma and task_weight
    \* shared between the supervisor and the workers
    stop_event,
    global_steps,
    global_rewards,
    steps_lock,     \* rank holding global_steps' lock, or NoHolder
    rewards_lock,   \* rank holding global_rewards' lock, or NoHolder
    global_model,   \* the shared model
    global_grad,    \* the gradient slots of the shared model: None, Zeroed
                    \* or the rank whose gradient they hold
    \* train, one per rank
    proc,           \* "none", "alive", "sigterm" (terminate() sent), "dead"
    wpc,            \* position of the worker
    env,            \* "unbound", "open", "closed"
    step_i,         \* index of the inner for loop
    done,
    num_games,
    prev_lines,
    reward,         \* the local `reward` of the current step, or None
    tmp,            \* the value read by the += under way, or None
    local_model,
    losses,         \* the component losses of the update under way
    total_loss,     \* total_loss in hundredths, or None
    \* history variables
    env_steps,      \* env.step calls of all workers
    steps_added,    \* completed increments of global_steps
    rewards_added,  \* sum of the rewards whose addition completed
    post_stop,      \* per rank: optimizer steps taken with the stop event set
    set_calls,      \* stop_event.set() calls
    left_by,        \* how the waiting loop was left, the reason of the calls
    last,           \* per rank: what env.step returned in the current step
    stored,         \* per rank: reward of the transition stored last
    exit_path,      \* per rank: how the loop was left
    cycle,          \* per rank: the steps of the current outer iteration
    ep_max,         \* per rank: highest line count of the current episode
    ep_bonus,       \* per rank: sum of the bonuses of the current episode
    reports         \* the trial.report calls of the trial, in order: value
                    \* and step as passed, the reporting rank and the two
                    \* counters at the call

driverVars == <<dpc, study, sampler_file, dumps>>
supVars    == <<spc, num_agents, processes, join_idx, sup_rewards, sup_steps,
               result, params>>
modelVars  == <<global_model, global_grad>>
eventVars  == <<stop_event, set_calls, left_by>>
stepsVars  == <<global_steps, steps_lock, steps_added>>
rewardVars == <<global_rewards, rewards_lock, rewards_added>>
procVars   == <<proc, env>>
localVars  == <<step_i, done, num_games, prev_lines, reward, tmp,
               local_model, losses, total_loss>>
histVars   == <<env_steps, post_stop, last, stored, exit_path, cycle,
               ep_max, ep_bonus, reports>>
workerVars == <<wpc, procVars, localVars, histVars>>
vars == <<driverVars, supVars, eventVars, stepsVars, rewardVars, modelVars,
          workerVars>>

NoStep == [raw |-> None, lines |-> None, prev |-> None, first |-> FALSE]

Init ==
    /\ dpc = "storage"
    /\ study = FALSE
    /\ sampler_file = "old"
    /\ dumps = 0
    /\ spc = "idle"
    /\ num_agents \in 1 .. MaxAgents
    /\ processes = 0
    /\ join_idx = 0
    /\ sup_rewards = None
    /\ sup_steps = None
    /\ result = [kind |-> "none"]
    /\ params = NoParams
    /\ global_model = NoModel
    /\ global_grad = None
    /\ stop_event = FALSE
    /\ global_steps = 0
    /\ global_rewards = 0
    /\ steps_lock = NoHolder
    /\ rewards_lock = NoHolder
    /\ proc = [r \in Ranks |-> "none"]
    /\ wpc = [r \in Ranks |-> "make_env"]
    /\ env = [r \in Ranks |-> "unbound"]
    /\ step_i = [r \in Ranks |-> 0]
    /\ done = [r \in Ranks |-> TRUE]
    /\ num_games = [r \in Ranks |-> 0]
    /\ prev_lines = [r \in Ranks |-> 0]
    /\ reward = [r \in Ranks |-> None]
    /\ tmp = [r \in Ranks |-> None]
    /\ local_model = [r \in Ranks |-> NoModel]
    /\ losses = [r \in Ranks |-> NoLosses]
    /\ total_loss = [r \in Ranks |-> None]
    /\ cycle = [r \in Ranks |-> <<>>]
    /\ ep_max = [r \in Ranks |-> 0]
    /\ ep_bonus = [r \in Ranks |-> 0]
    /\ env_steps = 0
    /\ steps_added = 0
    /\ rewards_added = 0
    /\ post_stop = [r \in Ranks |-> 0]
    /\ set_calls = 0
    /\ left_by = "none"
    /\ last = [r \in Ranks |-> NoStep]
    /\ stored = [r \in Ranks |-> None]
    /\ exit_path = [r \in Ranks |-> "none"]
    /\ reports = <<>>

(* ------------------------------ helpers ------------------------------- *)
\* the process executes code: it was started and no signal has killed it
Running(r) == proc[r] \in {"alive", "sigterm"}

\* Process.is_alive()
IsAlive(r) == proc[r] \in {"alive", "sigterm"}

\* acquiring a lock blocks while another process holds it; a holder that was
\* killed never releases it (CanAcquireUnlocked: the += without its lock)
CanAcquireUnlocked(lock) == TRUE
CanAcquire(lock) == lock = NoHolder

\* the with-block of an += releases its lock when an exception leaves it
\* (ReleasedNever: acquire() and release() without a with-block)
ReleasedNever(lock, r) == lock
ReleasedBy(lock, r) == IF lock = r THEN NoHolder ELSE lock


(* ------------------------- __main__ (driver) -------------------------- *)
\* lines 272-278: the log handler and the RDB storage
Storage ==
    /\ dpc = "storage"
    /\ dpc' = "create_study"
    /\ UNCHANGED <<study, sampler_file, dumps>>
    /\ UNCHANGED <<supVars, eventVars, stepsVars, rewardVars, modelVars, workerVars>>

\* lines 279-284: study = optuna.create_study(...)
CreateStudy ==
    /\ dpc = "create_study"
    /\ study' = TRUE
    /\ dpc' = "load"
    /\ UNCHANGED <<sampler_file, dumps>>
    /\ UNCHANGED <<supVars, eventVars, stepsVars, rewardVars, modelVars, workerVars>>

\* lines 286-293: the sampler is restored when the file is there; the
\* completed trials are counted
LoadSampler ==
    /\ dpc = "load"
    /\ dpc' = "optimize"
    /\ UNCHANGED <<study, sampler_file, dumps>>
    /\ UNCHANGED <<supVars, eventVars, stepsVars, rewardVars, modelVars, workerVars>>

\* an exception (KeyboardInterrupt included) raised by lines 272-293 or by
\* lines 297-311 is caught at line 313; the finally block follows
DriverRaise ==
    /\ dpc \in {"storage", "create_study", "load", "summary"}
    /\ dpc' = "finally"
    /\ UNCHANGED <<study, sampler_file, dumps>>
    /\ UNCHANGED <<supVars, eventVars, stepsVars, rewardVars, modelVars, workerVars>>

\* line 295: study.optimize calls objective
Optimize ==
    /\ dpc = "optimize"
    /\ spc = "idle"
    /\ spc' = "setup"
    /\ UNCHANGED <<num_agents, processes, join_idx, sup_rewards, sup_steps, result,
                 params>>
    /\ UNCHANGED <<driverVars, eventVars, stepsVars, rewardVars, modelVars, workerVars>>

\* line 295: objective returned, study.optimize returns
OptimizeReturn ==
    /\ dpc = "optimize"
    /\ spc = "returned"
    /\ dpc' = "summary"
    /\ UNCHANGED <<study, sampler_file, dumps>>
    /\ UNCHANGED <<supVars, eventVars, stepsVars, rewardVars, modelVars, workerVars>>

\* line 295: what objective raises leaves study.optimize and is caught at
\* line 313
OptimizeRaise ==
    /\ dpc = "optimize"
    /\ spc = "raised"
    /\ dpc' = "finally"
    /\ UNCHANGED <<study, sampler_file, dumps>>
    /\ UNCHANGED <<supVars, eventVars, stepsVars, rewardVars, modelVars, workerVars>>

\* lines 297-311: print the best trial
Summary ==
    /\ dpc = "summary"
    /\ dpc' = "finally"
    /\ UNCHANGED <<study, sampler_file, dumps>>
    /\ UNCHANGED <<supVars, eventVars, stepsVars, rewardVars, modelVars, workerVars>>

\* lines 317-320: open(..., "wb") creates or truncates the file, then
\* pickle.dump(study.sampler, fout); with `study` unbound the dump raises
\* NameError and leaves the file empty
DumpSampler(bound) == IF bound THEN "sampler" ELSE "empty"

Finally ==
    /\ dpc = "finally"
    /\ sampler_file' = DumpSampler(study)
    /\ dumps' = IF study THEN dumps + 1 ELSE dumps
    /\ dpc' = "exit"
    /\ UNCHANGED study
    /\ UNCHANGED <<supVars, eventVars, stepsVars, rewardVars, modelVars, workerVars>>

Driver ==
    \/ Storage \/ CreateStudy \/ LoadSampler \/ DriverRaise
    \/ Optimize \/ OptimizeReturn \/ OptimizeRaise \/ Summary \/ Finally

(* ----------------------- objective (supervisor) ----------------------- *)
\* lines 191-198: UNREAL(n_inputs, n_actions, hidden_size, beta, gamma,
\* device) with gamma = params["gamma"]
GlobalUNREAL(p) == [gamma |-> p.gamma, weights |-> 0]

\* lines 173-211: the environment, params as the trial suggests them, the
\* shared model and optimizer, the stop event and the two counters
Setup ==
    /\ spc = "setup"
    /\ \E p \in Suggestions(num_agents) :
         /\ params' = p
         /\ global_model' = GlobalUNREAL(p)
    /\ spc' = "spawn"
    /\ UNCHANGED global_grad
    /\ UNCHANGED <<num_agents, processes, join_idx, sup_rewards, sup_steps, result>>
    /\ UNCHANGED <<driverVars, eventVars, stepsVars, rewardVars, workerVars>>

\* lines 213-228: one iteration of the spawning loop, p.start() and
\* processes.append(p)
Spawn ==
    /\ spc = "spawn"
    /\ processes < num_agents
    /\ proc' = [proc EXCEPT ![processes] = "alive"]
    /\ processes' = processes + 1
    /\ UNCHANGED <<spc, num_agents, join_idx, sup_rewards, sup_steps, result, params>>
    /\ UNCHANGED <<driverVars, eventVars, stepsVars, rewardVars, modelVars>>
    /\ UNCHANGED <<wpc, env, localVars, histVars>>

\* line 213: range(params["num_agents"]) is exhausted; lines 230-232
SpawnDone ==
    /\ spc = "spawn"
    /\ processes = num_agents
    /\ spc' = "wait"
    /\ UNCHANGED <<num_agents, processes, join_idx, sup_rewards, sup_steps, result,
                 params>>
    /\ UNCHANGED <<driverVars, eventVars, stepsVars, rewardVars, modelVars, workerVars>>

\* Event.set() (EventToggled: a call that flips the flag)
EventToggled(e) == ~e
EventSet(e) == TRUE

\* line 233: the budget is used up, the while condition fails
WaitBudget ==
    /\ spc = "wait"
    /\ spc' = "set_stop"
    /\ left_by' = "budget"
    /\ UNCHANGED <<stop_event, set_calls>>
    /\ UNCHANGED <<num_agents, processes, join_idx, sup_rewards, sup_steps, result,
                 params>>
    /\ UNCHANGED <<driverVars, stepsVars, rewardVars, modelVars, workerVars>>

\* lines 234-235: no process is alive, break
WaitAllDead ==
    /\ spc = "wait"
    /\ \A r \in 0 .. (processes - 1) : ~IsAlive(r)
    /\ spc' = "set_stop"
    /\ left_by' = "all_dead"
    /\ UNCHANGED <<stop_event, set_calls>>
    /\ UNCHANGED <<num_agents, processes, join_idx, sup_rewards, sup_steps, result,
                 params>>
    /\ UNCHANGED <<driverVars, stepsVars, rewardVars, modelVars, workerVars>>

\* lines 234-242: a process is alive, sleep one second; should_prune() is
\* the pruner's answer: TRUE sets the event and breaks, FALSE loops
WaitPoll ==
    /\ spc = "wait"
    /\ \E r \in 0 .. (processes - 1) : IsAlive(r)
    /\ \E should_prune \in BOOLEAN :
        IF should_prune
        THEN /\ stop_event' = EventSet(stop_event)
             /\ set_calls' = set_calls + 1
             /\ left_by' = "prune"
             /\ spc' = "set_stop"
        ELSE UNCHANGED <<spc, eventVars>>
    /\ UNCHANGED <<num_agents, processes, join_idx, sup_rewards, sup_steps, result,
                 params>>
    /\ UNCHANGED <<driverVars, stepsVars, rewardVars, modelVars, workerVars>>

\* SetStopSkipped: line 244 left out, the event is set on a prune only
SetStopSkipped ==
    /\ spc = "set_stop"
    /\ set_calls' = set_calls + 1
    /\ spc' = "join"
    /\ UNCHANGED <<stop_event, left_by>>
    /\ UNCHANGED <<num_agents, processes, join_idx, sup_rewards, sup_steps, result,
                 params>>
    /\ UNCHANGED <<driverVars, stepsVars, rewardVars, modelVars, workerVars>>

\* line 244: stop_event.set(), whichever way the loop was left
SetStop ==
    /\ spc = "set_stop"
    /\ stop_event' = EventSet(stop_event)
    /\ set_calls' = set_calls + 1
    /\ spc' = "join"
    /\ UNCHANGED left_by
    /\ UNCHANGED <<num_agents, processes, join_idx, sup_rewards, sup_steps, result,
                 params>>
    /\ UNCHANGED <<driverVars, stepsVars, rewardVars, modelVars, workerVars>>

\* lines 246-248: process.join(timeout=10) returns because the process has
\* exited; is_alive() is False
JoinExited ==
    /\ spc = "join"
    /\ join_idx < processes
    /\ ~IsAlive(join_idx)
    /\ join_idx' = join_idx + 1
    /\ UNCHANGED <<spc, num_agents, processes, sup_rewards, sup_steps, result, params>>
    /\ UNCHANGED <<driverVars, eventVars, stepsVars, rewardVars, modelVars, workerVars>>

\* lines 246-249: the join times out, is_alive() is True, terminate() sends
\* SIGTERM and returns without waiting for the process to die
JoinTimeout ==
    /\ spc = "join"
    /\ join_idx < processes
    /\ IsAlive(join_idx)
    /\ proc' = [proc EXCEPT ![join_idx] = "sigterm"]
    /\ join_idx' = join_idx + 1
    /\ UNCHANGED <<spc, num_agents, processes, sup_rewards, sup_steps, result, params>>
    /\ UNCHANGED <<driverVars, eventVars, stepsVars, rewardVars, modelVars>>
    /\ UNCHANGED <<wpc, env, localVars, histVars>>

\* line 246: the for loop is exhausted; line 251: env.close()
JoinDone ==
    /\ spc = "join"
    /\ join_idx = processes
    /\ spc' = "read_rewards"
    /\ UNCHANGED <<num_agents, processes, join_idx, sup_rewards, sup_steps, result,
                 params>>
    /\ UNCHANGED <<driverVars, eventVars, stepsVars, rewardVars, modelVars, workerVars>>

\* line 259, left operand: Synchronized.value acquires the lock of
\* global_rewards, reads and releases
ReadRewards ==
    /\ spc = "read_rewards"
    /\ CanAcquire(rewards_lock)
    /\ sup_rewards' = global_rewards
    /\ spc' = "read_steps"
    /\ UNCHANGED <<num_agents, processes, join_idx, sup_steps, result, params>>
    /\ UNCHANGED <<driverVars, eventVars, stepsVars, rewardVars, modelVars, workerVars>>

RECURSIVE GCD(_, _)
GCD(a, b) == IF b = 0 THEN a ELSE GCD(b, a % b)

\* line 259: float / int; the quotient as a fraction in lowest terms, and
\* ZeroDivisionError for a zero divisor (ScoreOrZero: a guarded division
\* that returns 0 instead)
ScoreOrZero(rewards, steps) ==
    IF steps = 0
    THEN [kind |-> "return", num |-> 0, den |-> 1]
    ELSE [kind |-> "return", num |-> rewards \div GCD(rewards, steps),
                             den |-> steps \div GCD(rewards, steps)]
Score(rewards, steps) ==
    IF steps = 0
    THEN [kind |-> "ZeroDivisionError"]
    ELSE [kind |-> "return", num |-> rewards \div GCD(rewards, steps),
                             den |-> steps \div GCD(rewards, steps)]

\* lines 259-267, right operand and division: global_steps.value acquires
\* the lock of global_steps; the quotient is returned, ZeroDivisionError is
\* caught at line 266 and raised again as Exception
ReadSteps ==
    /\ spc = "read_steps"
    /\ CanAcquire(steps_lock)
    /\ sup_steps' = global_steps
    /\ LET q == Score(sup_rewards, global_steps)
       IN IF q.kind = "return"
          THEN /\ result' = q
               /\ spc' = "returned"
          ELSE /\ result' = [kind |-> "Exception"]
               /\ spc' = "raised"
    /\ UNCHANGED <<num_agents, processes, join_idx, sup_rewards, params>>
    /\ UNCHANGED <<driverVars, eventVars, stepsVars, rewardVars, modelVars, workerVars>>

\* lines 263-264: KeyboardInterrupt anywhere in the try block is raised again
Interrupt ==
    /\ spc \in {"setup", "spawn", "wait", "set_stop", "join",
                "read_rewards", "read_steps"}
    /\ result' = [kind |-> "KeyboardInterrupt"]
    /\ spc' = "raised"
    /\ UNCHANGED <<num_agents, processes, join_idx, sup_rewards, sup_steps, params>>
    /\ UNCHANGED <<driverVars, eventVars, stepsVars, rewardVars, modelVars, workerVars>>

\* lines 266-267: another exception is raised again as Exception: make_env
\* or the model at lines 173-205, p.start() at line 227, should_prune() at
\* line 240
Failure ==
    /\ spc \in {"setup", "spawn", "wait"}
    /\ spc = "spawn" => processes < num_agents
    /\ result' = [kind |-> "Exception"]
    /\ spc' = "raised"
    /\ UNCHANGED <<num_agents, processes, join_idx, sup_rewards, sup_steps, params>>
    /\ UNCHANGED <<driverVars, eventVars, stepsVars, rewardVars, modelVars, workerVars>>

Supervisor ==
    \/ Setup \/ Spawn \/ SpawnDone
    \/ WaitBudget \/ WaitAllDead \/ WaitPoll \/ SetStop
    \/ JoinExited \/ JoinTimeout \/ JoinDone
    \/ ReadRewards \/ ReadSteps
    \/ Interrupt \/ Failure

(* --------------------------- train (worker) --------------------------- *)
InLoop == {"loop", "steps_lock", "steps_wr", "env_step",
           "rew_lock", "rew_wr", "loss", "share", "opt"}

\* a local that is not read again is put back to its first value
Forgotten(f, r, v) == [f EXCEPT ![r] = v]

\* the locals of the loop, once the loop is left
LocalsForgotten(r) ==
    /\ step_i' = Forgotten(step_i, r, 0)
    /\ done' = Forgotten(done, r, TRUE)
    /\ num_games' = Forgotten(num_games, r, 0)
    /\ prev_lines' = Forgotten(prev_lines, r, 0)
    /\ reward' = Forgotten(reward, r, None)
    /\ tmp' = Forgotten(tmp, r, None)
    /\ local_model' = Forgotten(local_model, r, NoModel)
    /\ losses' = Forgotten(losses, r, NoLosses)
    /\ total_loss' = Forgotten(total_loss, r, None)
    /\ last' = Forgotten(last, r, NoStep)
    /\ stored' = Forgotten(stored, r, None)
    /\ cycle' = Forgotten(cycle, r, <<>>)
    /\ ep_max' = Forgotten(ep_max, r, 0)
    /\ ep_bonus' = Forgotten(ep_bonus, r, 0)

\* lines 50-56: UNREAL(n_inputs, n_actions, hidden_size, beta, device), the
\* gamma argument is not given
LocalUNREAL(p) == [gamma |-> DefaultGamma, weights |-> None]

\* lines 45-61: the environment, the local model, the replay buffer
MakeEnv(r) ==
    /\ Running(r)
    /\ wpc[r] = "make_env"
    /\ env' = [env EXCEPT ![r] = "open"]
    /\ local_model' = [local_model EXCEPT ![r] = LocalUNREAL(params)]
    /\ wpc' = [wpc EXCEPT ![r] = "loop"]
    /\ UNCHANGED <<step_i, done, num_games, prev_lines, reward, tmp, losses,
                   total_loss>>
    /\ UNCHANGED <<proc, histVars>>
    /\ UNCHANGED <<driverVars, supVars, eventVars, stepsVars, rewardVars,
                   modelVars>>

\* line 48: make_env raises; `env` stays unbound and the finally block runs
MakeEnvRaise(r) ==
    /\ Running(r)
    /\ wpc[r] = "make_env"
    /\ wpc' = [wpc EXCEPT ![r] = "finally"]
    /\ exit_path' = [exit_path EXCEPT ![r] = "make_env"]
    /\ UNCHANGED <<procVars, localVars, env_steps, post_stop, last, stored>>
    /\ UNCHANGED <<cycle, ep_max, ep_bonus, reports>>
    /\ UNCHANGED <<driverVars, supVars, eventVars, stepsVars, rewardVars,
                   modelVars>>

\* line 63: while not stop_event.is_set() (WhileTrue: a loop that does not
\* read the event; WhileSet: the test without its `not`)
WhileTrue(e) == TRUE
WhileSet(e) == e
WhileCondition(e) == ~e

\* line 65: load_state_dict gives the local model the weights of the state
\* dict; the attributes set by the constructor stay (LoadedNothing: the
\* refresh left out)
LoadedNothing(local, global) == local
Loaded(local, global) == [local EXCEPT !.weights = global.weights]

\* lines 63-67: the test of the outer loop; a cycle starts with zero_grad()
\* on the shared optimizer and load_state_dict(), the loop is left for
\* line 160
LoopCheck(r) ==
    /\ Running(r)
    /\ wpc[r] = "loop"
    /\ IF WhileCondition(stop_event)
       THEN /\ wpc' = [wpc EXCEPT ![r] = "steps_lock"]
            /\ global_grad' = Zeroed
            /\ local_model' = [local_model EXCEPT
                                  ![r] = Loaded(@, global_model)]
            /\ step_i' = [step_i EXCEPT ![r] = 0]
            /\ cycle' = [cycle EXCEPT ![r] = <<"refresh">>]
            /\ UNCHANGED <<done, num_games, prev_lines, reward, tmp, losses,
                           total_loss>>
            /\ UNCHANGED <<last, stored, exit_path, ep_max, ep_bonus>>
       ELSE /\ wpc' = [wpc EXCEPT ![r] = "finally"]
            /\ exit_path' = [exit_path EXCEPT ![r] = "stop"]
            /\ LocalsForgotten(r)
            /\ UNCHANGED global_grad
    /\ UNCHANGED <<procVars, env_steps, post_stop, reports, global_model>>
    /\ UNCHANGED <<driverVars, supVars, eventVars, stepsVars, rewardVars>>

\* the rollout steps a trial is followed for
StepBudget(n) == IF n = 1 THEN MaxStepsAlone ELSE MaxSteps

\* lines 68-69: the lock of global_steps is taken and the += reads the value
AcquireSteps(r) ==
    /\ Running(r)
    /\ wpc[r] = "steps_lock"
    /\ global_steps < StepBudget(num_agents)
    /\ CanAcquire(steps_lock)
    /\ steps_lock' = r
    /\ tmp' = [tmp EXCEPT ![r] = global_steps]
    /\ wpc' = [wpc EXCEPT ![r] = "steps_wr"]
    /\ reward' = Forgotten(reward, r, None)
    /\ last' = Forgotten(last, r, NoStep)
    /\ stored' = Forgotten(stored, r, None)
    /\ UNCHANGED <<global_steps, steps_added>>
    /\ UNCHANGED <<step_i, done, num_games, prev_lines, local_model, losses,
                   total_loss>>
    /\ UNCHANGED <<procVars, env_steps, post_stop, exit_path, cycle, ep_max,
                   ep_bonus, reports>>
    /\ UNCHANGED <<driverVars, supVars, eventVars, rewardVars, modelVars>>

\* line 69: the += writes the value read plus one; the with-block ends
WriteSteps(r) ==
    /\ Running(r)
    /\ wpc[r] = "steps_wr"
    /\ global_steps' = tmp[r] + 1
    /\ steps_added' = steps_added + 1
    /\ steps_lock' = NoHolder
    /\ tmp' = [tmp EXCEPT ![r] = None]
    /\ wpc' = [wpc EXCEPT ![r] = "env_step"]
    /\ UNCHANGED <<step_i, done, num_games, prev_lines, reward, local_model,
                   losses, total_loss>>
    /\ UNCHANGED <<procVars, histVars>>
    /\ UNCHANGED <<driverVars, supVars, eventVars, rewardVars, modelVars>>

\* lines 95-96: the bonus of a step (BonusOfChange: != in place of >)
BonusOfChange(lines, prev) == IF lines # prev THEN 10 * (lines - prev) ELSE 0
Bonus(lines, prev) == IF lines > prev THEN 10 * (lines - prev) ELSE 0

\* lines 95-97: prev_lines after a step
Recorded(lines, prev) == IF lines > prev THEN lines ELSE prev

\* lines 70-77: prev_lines at env.step, after the reset of a new episode
\* (LinesKept: line 77 left out)
LinesKept(d, prev) == prev
LinesAtStep(d, prev) == IF d THEN 0 ELSE prev

\* line 78: `not rank`
Reporter(rank) == rank = 0

\* line 79: the value passed to trial.report is global_rewards.value
ReportedValue(rewards, steps) == rewards

\* lines 70-97: a new episode when done (rank 0 reports global_rewards.value,
\* a read that takes the lock of global_rewards, under step num_games once a
\* game has been played), then the policy's action, env.step and the bonus
EnvStep(r) ==
    /\ Running(r)
    /\ wpc[r] = "env_step"
    /\ IF done[r] /\ Reporter(r) /\ num_games[r] # 0
       THEN /\ CanAcquire(rewards_lock)
            /\ reports' = Append(reports,
                    [by |-> r,
                     value |-> ReportedValue(global_rewards, global_steps),
                     step |-> num_games[r],
                     rewards |-> global_rewards,
                     steps |-> global_steps])
       ELSE UNCHANGED reports
    /\ LET prev == LinesAtStep(done[r], prev_lines[r])
       IN \E raw \in RawRewards, lines \in 0 .. MaxLines, d \in BOOLEAN :
            /\ reward' = [reward EXCEPT ![r] = raw + Bonus(lines, prev)]
            /\ prev_lines' = [prev_lines EXCEPT ![r] = Recorded(lines, prev)]
            /\ done' = [done EXCEPT ![r] = d]
            /\ last' = [last EXCEPT ![r] =
                            [raw |-> raw, lines |-> lines, prev |-> prev,
                             first |-> done[r]]]
            /\ ep_max' = [ep_max EXCEPT ![r] =
                            IF done[r] \/ lines > @ THEN lines ELSE @]
            /\ ep_bonus' = [ep_bonus EXCEPT ![r] =
                            (IF done[r] THEN 0 ELSE @) + Bonus(lines, prev)]
    /\ num_games' = [num_games EXCEPT ![r] = IF done[r] THEN @ + 1 ELSE @]
    /\ env_steps' = env_steps + 1
    /\ cycle' = [cycle EXCEPT ![r] = Append(@, "step")]
    /\ wpc' = [wpc EXCEPT ![r] = "rew_lock"]
    /\ UNCHANGED <<step_i, tmp, local_model, losses, total_loss>>
    /\ UNCHANGED <<procVars, post_stop, stored, exit_path>>
    /\ UNCHANGED <<driverVars, supVars, eventVars, stepsVars, rewardVars,
                   modelVars>>

\* lines 98-99: the lock of global_rewards is taken and the += reads the value
AcquireRewards(r) ==
    /\ Running(r)
    /\ wpc[r] = "rew_lock"
    /\ CanAcquire(rewards_lock)
    /\ rewards_lock' = r
    /\ tmp' = [tmp EXCEPT ![r] = global_rewards]
    /\ wpc' = [wpc EXCEPT ![r] = "rew_wr"]
    /\ UNCHANGED <<global_rewards, rewards_added>>
    /\ UNCHANGED <<step_i, done, num_games, prev_lines, reward, local_model,
                   losses, total_loss>>
    /\ UNCHANGED <<procVars, histVars>>
    /\ UNCHANGED <<driverVars, supVars, eventVars, stepsVars, modelVars>>

\* lines 102-110: the reward field of the transition given to the buffer
StoredReward(r) == reward[r]

\* lines 99-116: the += writes the value read plus reward and the with-block
\* ends; the transition is stored; the for loop advances
WriteRewards(r) ==
    /\ Running(r)
    /\ wpc[r] = "rew_wr"
    /\ global_rewards' = tmp[r] + reward[r]
    /\ rewards_added' = rewards_added + reward[r]
    /\ rewards_lock' = NoHolder
    /\ tmp' = [tmp EXCEPT ![r] = None]
    /\ stored' = [stored EXCEPT ![r] = StoredReward(r)]
    /\ step_i' = [step_i EXCEPT ![r] = @ + 1]
    /\ wpc' = [wpc EXCEPT ![r] =
                  IF step_i[r] + 1 < UnrollSteps THEN "steps_lock" ELSE "loss"]
    /\ UNCHANGED <<done, num_games, prev_lines, reward, local_model, losses,
                   total_loss>>
    /\ UNCHANGED <<procVars, env_steps, post_stop, last, exit_path, cycle,
                   ep_max, ep_bonus, reports>>
    /\ UNCHANGED <<driverVars, supVars, eventVars, stepsVars, modelVars>>

\* line 128: a3c_loss
A3cLoss(policy_loss, value_loss) == policy_loss + value_loss

\* lines 149-151: total_loss, in hundredths as task_weight is (TotalLossTwice:
\* vr_loss added a second time in place of rp_loss)
Hundredths == 100
TotalLossTwice(a3c_loss, vr_loss, task_weight, aux_control_loss, rp_loss) ==
    Hundredths * a3c_loss + Hundredths * vr_loss
        + task_weight * aux_control_loss + Hundredths * vr_loss
TotalLoss(a3c_loss, vr_loss, task_weight, aux_control_loss, rp_loss) ==
    Hundredths * a3c_loss + Hundredths * vr_loss
        + task_weight * aux_control_loss + Hundredths * rp_loss

\* lines 118-154: the samples of the replay buffer, the component losses
\* and their sum; total_loss.backward() leaves the gradient of this cycle
\* in the local model and clip_grad_norm_ scales it
ComputeLoss(r) ==
    /\ Running(r)
    /\ wpc[r] = "loss"
    /\ \E c \in LossCases :
         /\ losses' = [losses EXCEPT ![r] = c]
         /\ total_loss' = [total_loss EXCEPT ![r] =
                TotalLoss(A3cLoss(c.policy, c.value), c.vr,
                          params.task_weight, c.control, c.rp)]
    /\ reward' = Forgotten(reward, r, None)
    /\ last' = Forgotten(last, r, NoStep)
    /\ stored' = Forgotten(stored, r, None)
    /\ cycle' = [cycle EXCEPT ![r] = Append(@, "loss")]
    /\ wpc' = [wpc EXCEPT ![r] = "share"]
    /\ UNCHANGED <<step_i, done, num_games, prev_lines, tmp, local_model>>
    /\ UNCHANGED <<procVars, env_steps, post_stop, exit_path, ep_max, ep_bonus,
                   reports>>
    /\ UNCHANGED <<driverVars, supVars, eventVars, stepsVars, rewardVars,
                   modelVars>>

\* ensure_share_grads: the gradient of the local model is copied into the
\* slots of the shared model (HandedOffIfEmpty: a copy into empty slots only)
HandedOffIfEmpty(slot, r) == IF slot = None THEN r ELSE slot
HandedOff(slot, r) == r

\* lines 155-157: the hand-off of the gradient
ShareGrads(r) ==
    /\ Running(r)
    /\ wpc[r] = "share"
    /\ global_grad' = HandedOff(global_grad, r)
    /\ losses' = Forgotten(losses, r, NoLosses)
    /\ total_loss' = Forgotten(total_loss, r, None)
    /\ cycle' = [cycle EXCEPT ![r] = Append(@, "share")]
    /\ wpc' = [wpc EXCEPT ![r] = "opt"]
    /\ UNCHANGED <<step_i, done, num_games, prev_lines, reward, tmp,
                   local_model>>
    /\ UNCHANGED global_model
    /\ UNCHANGED <<procVars, env_steps, post_stop, last, stored, exit_path,
                   ep_max, ep_bonus, reports>>
    /\ UNCHANGED <<driverVars, supVars, eventVars, stepsVars, rewardVars>>

\* line 158: optimizer.step() changes the weights of the shared model by
\* what its gradient slots hold
OptimizerStep(r) ==
    /\ Running(r)
    /\ wpc[r] = "opt"
    /\ global_model' = [global_model EXCEPT !.weights = @ + 1]
    /\ post_stop' = [post_stop EXCEPT ![r] = IF stop_event THEN @ + 1 ELSE @]
    /\ cycle' = [cycle EXCEPT ![r] = Append(@, "opt")]
    /\ wpc' = [wpc EXCEPT ![r] = "loop"]
    /\ UNCHANGED <<localVars, global_grad>>
    /\ UNCHANGED <<procVars, env_steps, last, stored, exit_path, ep_max,
                   ep_bonus, reports>>
    /\ UNCHANGED <<driverVars, supVars, eventVars, stepsVars, rewardVars>>

\* lines 118-158: the losses, backward(), the clipping, the hand-off of the
\* gradients and optimizer.step()
Update(r) == ComputeLoss(r) \/ ShareGrads(r) \/ OptimizerStep(r)

\* lines 162-165: an exception inside the loop (KeyboardInterrupt and
\* ProcessError are printed, any other propagates); a with-block under way
\* releases its lock; the finally block runs
Abort(r) ==
    /\ Running(r)
    /\ wpc[r] \in InLoop
    /\ steps_lock' = ReleasedBy(steps_lock, r)
    /\ rewards_lock' = ReleasedBy(rewards_lock, r)
    /\ LocalsForgotten(r)
    /\ wpc' = [wpc EXCEPT ![r] = "finally"]
    /\ UNCHANGED <<global_steps, steps_added, global_rewards, rewards_added>>
    /\ exit_path' = [exit_path EXCEPT ![r] = "exception"]
    /\ UNCHANGED <<procVars, env_steps, post_stop, reports>>
    /\ UNCHANGED <<driverVars, supVars, eventVars, modelVars>>

\* line 168: env.close(); with `env` unbound it raises UnboundLocalError;
\* the process ends either way
CloseEnv(r) ==
    /\ Running(r)
    /\ wpc[r] = "finally"
    /\ env' = [env EXCEPT ![r] = IF @ = "open" THEN "closed" ELSE @]
    /\ proc' = [proc EXCEPT ![r] = "dead"]
    /\ wpc' = [wpc EXCEPT ![r] = "exited"]
    /\ UNCHANGED <<localVars, histVars>>
    /\ UNCHANGED <<driverVars, supVars, eventVars, stepsVars, rewardVars,
                   modelVars>>

\* line 249: the SIGTERM of terminate() kills the process where it stands:
\* no finally block runs and a lock it holds stays held
Die(r) ==
    /\ proc[r] = "sigterm"
    /\ proc' = [proc EXCEPT ![r] = "dead"]
    /\ wpc' = [wpc EXCEPT ![r] = "killed"]
    /\ LocalsForgotten(r)
    /\ UNCHANGED <<env, env_steps, post_stop, exit_path, reports>>
    /\ UNCHANGED <<driverVars, supVars, eventVars, stepsVars, rewardVars,
                   modelVars>>

\* the steps of a worker that runs on
WorkerStep(r) ==
    \/ MakeEnv(r) \/ LoopCheck(r)
    \/ AcquireSteps(r) \/ WriteSteps(r)
    \/ EnvStep(r)
    \/ AcquireRewards(r) \/ WriteRewards(r)
    \/ Update(r) \/ CloseEnv(r)

Worker(r) == WorkerStep(r) \/ MakeEnvRaise(r) \/ Abort(r) \/ Die(r)

(* --------------------------- specifications --------------------------- *)
Next == Driver \/ Supervisor \/ \E r \in Ranks : Worker(r)

Spec == Init /\ [][Next]_vars

\* the steps of the supervisor that no exception cuts short
SupervisorStep ==
    \/ Setup \/ Spawn \/ SpawnDone
    \/ WaitBudget \/ WaitAllDead \/ WaitPoll \/ SetStop
    \/ JoinExited \/ JoinTimeout \/ JoinDone
    \/ ReadRewards \/ ReadSteps

\* every process is scheduled: a process that can go on does, and a
\* SIGTERM that was sent is delivered
FairSpec ==
    /\ Spec
    /\ WF_vars(SupervisorStep)
    /\ \A r \in Ranks : WF_vars(WorkerStep(r)) /\ WF_vars(Die(r))

(* ------------------------------- claims ------------------------------- *)
Started == 0 .. (processes - 1)
Finished == spc \in {"returned", "raised"}

\* C1: when objective has returned or raised after starting all num_agents
\* processes, none of them is left running: each has exited (a join of it
\* returns) or has been sent terminate().
C1_NoProcessLeft ==
    (Finished /\ processes = num_agents) =>
        \A r \in Started : proc[r] \in {"dead", "sigterm"}

\* C2: once the stop event is set a worker completes at most the cycle it
\* is in: it takes at most one optimizer step with the event set, and at the
\* test of the outer loop it starts no further cycle.
C2_AtMostOneCycleAfterStop ==
    /\ [](\A r \in Ranks : post_stop[r] <= 1)
    /\ [][\A r \in Ranks :
            (stop_event /\ Running(r) /\ wpc[r] = "loop")
                => wpc'[r] \in {"loop", "finally", "killed"}]_vars

\* C2, its case: a worker was inside a cycle when the event was set, has
\* finished that cycle and has left the loop at the test.
C2_Witness ==
    \E r \in Ranks :
        /\ stop_event
        /\ post_stop[r] = 1
        /\ exit_path[r] = "stop"
        /\ wpc[r] = "exited"

\* C3: after the stop event is set objective always ends, by returning or
\* by raising.
C3_ObjectiveEnds == stop_event ~> Finished

\* C4: whenever no running worker is inside an inner iteration, global_steps
\* is the number of env.step calls made.
InStep(r) ==
    Running(r) /\ wpc[r] \in {"steps_wr", "env_step", "rew_lock", "rew_wr"}

C4_StepsCountEnvSteps ==
    (\A r \in Ranks : ~InStep(r)) => global_steps = env_steps

\* C5: at most one running worker is inside the read-modify-write of a
\* counter, and each counter is the sum of what the workers added to it.
InSection(pc) == {r \in Ranks : Running(r) /\ wpc[r] = pc}

C5_NoLostUpdate ==
    /\ Cardinality(InSection("steps_wr")) <= 1
    /\ Cardinality(InSection("rew_wr")) <= 1
    /\ global_steps = steps_added
    /\ global_rewards = rewards_added

\* C5, its case: both counters hold the additions of two workers, and one
\* worker waits for the lock of global_rewards that the other holds.
C5_Witness ==
    \E r1, r2 \in Ranks :
        /\ r1 # r2
        /\ Running(r1) /\ wpc[r1] = "rew_wr"
        /\ Running(r2) /\ wpc[r2] = "rew_lock"
        /\ steps_added = 2

\* C6: what objective returns is the rewards read divided by the steps read,
\* and with zero steps read it raises instead of returning.
C6_ScoreOrRaise ==
    /\ spc = "returned" =>
        /\ result.kind = "return"
        /\ sup_steps > 0
        /\ result.den > 0
        /\ result.num * sup_steps = result.den * sup_rewards
    /\ sup_steps = 0 => spc = "raised" /\ result.kind = "Exception"

\* C6, its case: 22 rewards over 2 steps are returned as 11.
C6_Witness ==
    /\ spc = "returned"
    /\ sup_rewards = 22
    /\ sup_steps = 2
    /\ result = [kind |-> "return", num |-> 11, den |-> 1]

\* C7: a worker process that is gone has closed its environment, once.
C7_EnvClosedOnExit ==
    \A r \in Ranks : proc[r] = "dead" => env[r] = "closed"

\* C8: when the driver exits, the sampler file has been written once and
\* holds the sampler of the study.
C8_SamplerWrittenOnce ==
    dpc = "exit" => dumps = 1 /\ sampler_file = "sampler"

\* C9 as claimed: the stop event is set only because the budget ran out or
\* the pruner said so.
C9_SetForBudgetOrPruneOnly ==
    stop_event => left_by \in {"budget", "prune"}

\* C9 as amended: the event goes from unset to set only, by the supervisor
\* at line 241 or line 244 and by nothing else; set() is called at line 244
\* however the waiting loop was left, and a second time only after a prune.
C9_SetBySupervisorNeverReset ==
    /\ [](/\ stop_event <=> set_calls >= 1
          /\ set_calls <= 2
          /\ set_calls = 2 => left_by = "prune"
          /\ stop_event => left_by \in {"budget", "prune", "all_dead"})
    /\ [][/\ stop_event => stop_event'
          /\ stop_event' # stop_event =>
                /\ spc \in {"wait", "set_stop"}
                /\ spc' \in {"set_stop", "join"}]_vars

\* C9, its case: after a prune set() has been called twice, the event is
\* set and a worker still runs.
C9_Witness ==
    /\ stop_event
    /\ set_calls = 2
    /\ left_by = "prune"
    /\ \E r \in Ranks : Running(r)

\* C10: the reward of a step is what env.step returned plus 10 times the
\* increase of the line count over the recorded count when there is an
\* increase, and plus nothing otherwise; the recorded count rises with an
\* increase only; that reward is what is added to global_rewards and stored.
Expected(l) == l.raw + (IF l.lines - l.prev > 0 THEN 10 * (l.lines - l.prev) ELSE 0)

C10_BonusOnIncreaseOnly ==
    /\ [](\A r \in Ranks : last[r] # NoStep =>
            /\ reward[r] = Expected(last[r])
            /\ prev_lines[r] =
                 IF last[r].lines - last[r].prev > 0 THEN last[r].lines
                                                     ELSE last[r].prev
            /\ stored[r] # None => stored[r] = Expected(last[r]))
    /\ [][\A r \in Ranks :
            (wpc[r] = "rew_wr" /\ wpc'[r] \in {"steps_lock", "loss"}) =>
                /\ global_rewards' = global_rewards + Expected(last[r])
                /\ stored'[r] = Expected(last[r])]_vars

\* C10, its case: in one episode a step with an increase was given its
\* bonus, and the next step, with a decrease, is stored without a bonus and
\* leaves the recorded count as it was.
C10_Witness ==
    \E r \in Ranks :
        /\ last[r] = [raw |-> 1, lines |-> 0, prev |-> 1, first |-> FALSE]
        /\ stored[r] = 1
        /\ prev_lines[r] = 1
        /\ global_rewards = 12

\* C11: the waiting loop is left in three ways only: the budget is used up;
\* no started process is alive, and then the event is not set by that step;
\* the pruner says prune while a process is alive, and then that step sets
\* the event.  The event is set before the join loop is entered, so before
\* the first join and before any terminate().
C11_StopSetBeforeJoin ==
    /\ [](/\ spc \in {"join", "read_rewards", "read_steps", "returned"}
                => stop_event
          /\ join_idx > 0 => stop_event
          /\ (\E r \in Ranks : proc[r] = "sigterm") => stop_event)
    /\ [][/\ (spc = "wait" /\ spc' = "set_stop") =>
                /\ left_by' \in {"budget", "all_dead", "prune"}
                /\ left_by' = "all_dead" =>
                      /\ \A r \in Started : ~IsAlive(r)
                      /\ stop_event' = stop_event
                /\ left_by' = "prune" =>
                      /\ \E r \in Started : IsAlive(r)
                      /\ stop_event'
          /\ join_idx' # join_idx => stop_event]_vars

\* C11, its case: the budget ran out with the event unset and a worker
\* running; the event is set and the first process has been joined.
C11_Witness ==
    /\ left_by = "budget"
    /\ set_calls = 1
    /\ stop_event
    /\ spc = "join"
    /\ join_idx = 1
    /\ \E r \in Started : Running(r)

\* C12: every trial.report call is made by rank 0; the k-th call carries
\* step k, so there is none at the first reset; the value reported is the
\* mean reward at the call, global_rewards divided by global_steps.
C12_ReportsMeanReward ==
    \A i \in 1 .. Len(reports) :
        /\ reports[i].by = 0
        /\ reports[i].step = i
        /\ reports[i].steps > 0
        /\ reports[i].value * reports[i].steps = reports[i].rewards

\* C13 as claimed: a worker leaves its outer loop only at the test at the
\* top of an iteration, with the stop event set; a cycle under way is never
\* left.
C13_ExitsOnlyAtTestWhenStopped ==
    [][\A r \in Ranks :
         (wpc[r] \in InLoop /\ wpc'[r] \notin InLoop)
             => (wpc[r] = "loop" /\ stop_event)]_vars

\* C13 as amended: the loop is left in three ways only: at the test at the
\* top of an iteration with the event set, by an exception raised inside the
\* loop, or by the SIGTERM of terminate(); the test is made at the top
\* only, so apart from the last two a cycle that started goes from step to
\* step up to optimizer.step() and back to the test.
C13_ExitsAtTestOrByFailure ==
    [][\A r \in Ranks :
         /\ (wpc[r] \in InLoop /\ wpc'[r] \notin InLoop) =>
               \/ /\ wpc[r] = "loop"
                  /\ stop_event
                  /\ wpc'[r] = "finally"
                  /\ exit_path'[r] = "stop"
               \/ /\ wpc'[r] = "finally"
                  /\ exit_path'[r] = "exception"
               \/ /\ wpc'[r] = "killed"
                  /\ proc[r] = "sigterm"
         /\ (wpc[r] \in InLoop /\ wpc'[r] = "loop" /\ wpc[r] # "loop")
               => wpc[r] = "opt"
         /\ (wpc[r] = "loop" /\ wpc'[r] \in InLoop \ {"loop"})
               => ~stop_event]_vars

\* C13, its case: a single worker ran one whole cycle, came back to the
\* test, found the event set and left the loop there.
C13_Witness ==
    /\ num_agents = 1
    /\ env_steps = UnrollSteps
    /\ global_steps = UnrollSteps
    /\ stop_event
    /\ exit_path[0] = "stop"
    /\ wpc[0] = "finally"

\* C14: the step by which a worker aborts on an exception leaves the stop
\* event, the supervisor and every other worker as they were, and holds no
\* lock afterwards; the worker then closes its environment and its process
\* ends; the supervisor leaves the waiting loop for dead workers only when
\* no started process is alive.
C14_WorkerFailureIsLocal ==
    /\ [](\A r \in Ranks :
            /\ exit_path[r] = "exception" =>
                  (steps_lock # r /\ rewards_lock # r)
            /\ (exit_path[r] = "exception" /\ wpc[r] = "exited") =>
                  (env[r] = "closed" /\ proc[r] = "dead"))
    /\ [][/\ \A r \in Ranks :
                (exit_path'[r] = "exception" /\ exit_path[r] # "exception") =>
                    /\ stop_event' = stop_event
                    /\ spc' = spc
                    /\ proc' = proc
                    /\ global_steps' = global_steps
                    /\ global_rewards' = global_rewards
                    /\ \A q \in Ranks \ {r} : wpc'[q] = wpc[q]
          /\ (spc = "wait" /\ spc' = "set_stop" /\ ~stop_event') =>
                \/ left_by' = "budget"
                \/ \A q \in Started : ~IsAlive(q)]_vars

\* C14, its case: one worker has aborted and is gone with its environment
\* closed; its sibling is in the middle of a step, the event is unset and
\* the supervisor waits.
C14_Witness ==
    \E r, q \in Ranks :
        /\ r # q
        /\ exit_path[r] = "exception"
        /\ wpc[r] = "exited"
        /\ env[r] = "closed"
        /\ Running(q)
        /\ wpc[q] = "rew_wr"
        /\ spc = "wait"
        /\ ~stop_event

CycleOrder ==
    <<"refresh">> \o [i \in 1 .. UnrollSteps |-> "step"]
        \o <<"loss", "share", "opt">>

IsPrefix(s, t) == Len(s) <= Len(t) /\ \A i \in 1 .. Len(s) : s[i] = t[i]

C16_CycleInOrder ==
    /\ [](\A r \in Ranks : IsPrefix(cycle[r], CycleOrder))
    /\ [][\A r \in Ranks :
            /\ (wpc[r] = "loop" /\ wpc'[r] = "steps_lock") =>
                  /\ local_model'[r].weights = global_model.weights
                  /\ global_grad' = Zeroed
                  /\ cycle'[r] = <<"refresh">>
            /\ (wpc[r] \in InLoop \ {"loop"} /\ wpc'[r] \in InLoop) =>
                  local_model'[r] = local_model[r]
            /\ (wpc[r] = "env_step" /\ wpc'[r] = "rew_lock") =>
                  /\ local_model[r].weights # None
                  /\ Len(cycle'[r]) <= 1 + UnrollSteps
            /\ (wpc[r] = "opt" /\ wpc'[r] = "loop") =>
                  /\ cycle'[r] = CycleOrder
                  /\ global_model'.weights = global_model.weights + 1]_vars

\* C16, its case: a worker has finished a cycle, has refreshed its weights
\* to those its optimizer step made and has taken the first env step of its
\* second cycle.
C16_Witness ==
    \E r \in Ranks :
        /\ global_model.weights = 1
        /\ local_model[r].weights = 1
        /\ cycle[r] = <<"refresh", "step">>
        /\ wpc[r] = "rew_lock"

\* C17: inside its loop a worker's local model has the discount factor the
\* trial suggested, the one the shared model was built with.
C17_LocalGammaIsSuggested ==
    \A r \in Ranks :
        (Running(r) /\ wpc[r] \in InLoop) =>
            /\ local_model[r].gamma = params.gamma
            /\ local_model[r].gamma = global_model.gamma

\* C18: when objective reads global_rewards and when it reads global_steps
\* at line 259, no worker process is inside a rollout step, where it adds
\* to the counters.
CanStillAdd(r) ==
    /\ Running(r)
    /\ wpc[r] \in {"steps_lock", "steps_wr", "env_step", "rew_lock", "rew_wr"}

C18_ScoreFromQuiescentCounters ==
    [][(\/ spc = "read_rewards" /\ spc' = "read_steps"
        \/ spc = "read_steps" /\ sup_steps' # sup_steps)
           => \A r \in Ranks : ~CanStillAdd(r)]_vars

\* C19 as claimed: the gradient slots of the shared model hold the
\* worker's own gradient when its optimizer.step() reads them.
C19_StepConsumesOwnGradient ==
    [][\A r \in Ranks :
         (wpc[r] = "opt" /\ wpc'[r] = "loop") => global_grad = r]_vars

\* C19 as amended: in a trial of one worker the slots hold the worker's own
\* gradient of the cycle when its optimizer.step() reads them; in a trial of
\* several they hold what was written last: that gradient, another
\* worker's, or the zeros of another worker's zero_grad().
C19_OwnGradientWhenAlone ==
    [][\A r \in Ranks :
         (wpc[r] = "opt" /\ wpc'[r] = "loop") =>
             /\ num_agents = 1 => global_grad = r
             /\ global_grad \in {Zeroed} \cup Started]_vars

\* C19, its case: a single worker has handed off its gradient and its
\* optimizer step has used it.
C19_Witness ==
    /\ num_agents = 1
    /\ wpc[0] = "loop"
    /\ cycle[0] = CycleOrder
    /\ global_grad = 0
    /\ global_model.weights = 1

\* C20: the step that starts an episode computes its bonus against a count
\* of 0, and a worker's first step starts one; after every step prev_lines
\* is the highest line count of the episode so far and the bonuses of the
\* episode sum to 10 times it; a step taken with done false, in the same
\* rollout or in the next cycle, continues the episode: no reset, no new
\* game, the bonus against the recorded count; done changes at env.step only.
C20_BonusPerEpisode ==
    /\ [](\A r \in Ranks :
            /\ last[r] # NoStep =>
                  /\ num_games[r] >= 1
                  /\ last[r].first => last[r].prev = 0
            /\ prev_lines[r] = ep_max[r]
            /\ ep_bonus[r] = 10 * ep_max[r])
    /\ [][\A r \in Ranks :
            /\ (wpc[r] = "env_step" /\ wpc'[r] = "rew_lock") =>
                  IF done[r]
                  THEN /\ num_games'[r] = num_games[r] + 1
                       /\ last'[r].first
                       /\ last'[r].prev = 0
                  ELSE /\ num_games'[r] = num_games[r]
                       /\ ~last'[r].first
                       /\ last'[r].prev = prev_lines[r]
            /\ (done'[r] # done[r]) =>
                  (wpc[r] = "env_step" \/ wpc'[r] \notin InLoop)]_vars

\* C20, its case: the first episode of a single worker was not over at the
\* end of the first rollout; the first step of the second cycle continues
\* it and is given the bonus of the line it reports.
C20_Witness ==
    /\ num_agents = 1
    /\ global_steps = UnrollSteps + 1
    /\ cycle[0] = <<"refresh", "step">>
    /\ num_games[0] = 1
    /\ last[0] = [raw |-> 0, lines |-> 1, prev |-> 0, first |-> FALSE]
    /\ prev_lines[0] = 1
    /\ ep_bonus[0] = 10

=============================================================================
